---- MODULE Spec2Model ----
(***************************************************************************)
(* Model of prompt_guide (src/prompt_guide/cli.py, claude_cli.py) and of   *)
(* its single-file twin src/standalone/prompt-guide.py.                    *)
(*                                                                         *)
(* Texts are sequences of one-character strings, so that str.replace,      *)
(* str.strip, str.find, slicing and json.loads are computed character by   *)
(* character.  JSON values are records [t, v]:                             *)
(*   t = "obj"  v = sequence of [k, val] members in insertion order        *)
(*   t = "arr"  v = sequence of values                                     *)
(*   t = "str"  v = text                                                   *)
(*   t = "num"  v = integer                                                *)
(*   t = "lit"  v = "true" | "false" | "null"                              *)
(***************************************************************************)
EXTENDS Integers, Sequences, FiniteSets, TLC

\* ------------------------------------------------------------------------
\* Text primitives (Python str methods used by the program)
\* ------------------------------------------------------------------------

IsWs(c) == c \in {" ", "\n", "\t"}

RECURSIVE LStrip(_)
LStrip(s) == IF s # <<>> /\ IsWs(Head(s)) THEN LStrip(Tail(s)) ELSE s

RECURSIVE RStrip(_)
RStrip(s) ==
    IF s # <<>> /\ IsWs(s[Len(s)]) THEN RStrip(SubSeq(s, 1, Len(s) - 1)) ELSE s

\* str.strip()
Strip(s) == RStrip(LStrip(s))

\* s[i..] starts with pat (i is 1-based)
StartsAt(s, i, pat) ==
    /\ i + Len(pat) - 1 <= Len(s)
    /\ \A k \in 1..Len(pat) : s[i + k - 1] = pat[k]

\* str.replace(pat, "") scans from the left and drops the occurrences of pat
\* that do not overlap an occurrence dropped before: Dropped(s, pat, i) is
\* "the occurrence that starts at i is dropped".
RECURSIVE Dropped(_, _, _)
Dropped(s, pat, i) ==
    /\ i >= 1
    /\ StartsAt(s, i, pat)
    /\ \A j \in (i - Len(pat) + 1)..(i - 1) : ~Dropped(s, pat, j)

\* the positions of s that no dropped occurrence covers
Kept(s, pat) ==
    {k \in 1..Len(s) : \A j \in (k - Len(pat) + 1)..k : ~Dropped(s, pat, j)}

\* the characters of s at the positions kept, in order
Pick(s, kept) ==
    IF kept = 1..Len(s) THEN s
    ELSE [n \in 1..Cardinality(kept) |->
            s[CHOOSE k \in kept : Cardinality({j \in kept : j <= k}) = n]]

Remove(s, pat) == Pick(s, Kept(s, pat))

\* str.find(c): 0-based index of the first occurrence, -1 when absent
Find(s, c) ==
    IF \E i \in 1..Len(s) : s[i] = c
    THEN (CHOOSE i \in 1..Len(s) : s[i] = c /\ \A j \in 1..(i - 1) : s[j] # c) - 1
    ELSE -1

\* str.rfind(c): 0-based index of the last occurrence, -1 when absent
RFind(s, c) ==
    IF \E i \in 1..Len(s) : s[i] = c
    THEN (CHOOSE i \in 1..Len(s) : s[i] = c /\ \A j \in (i + 1)..Len(s) : s[j] # c) - 1
    ELSE -1

\* s[start:end] with 0 <= start < end (Python slice, 0-based, end exclusive)
Slice(s, start, end) ==
    SubSeq(s, start + 1, IF end > Len(s) THEN Len(s) ELSE end)

\* "sep".join(parts)
RECURSIVE Join(_, _)
Join(sep, parts) ==
    IF parts = <<>> THEN <<>>
    ELSE IF Len(parts) = 1 THEN parts[1]
    ELSE parts[1] \o sep \o Join(sep, Tail(parts))

\* the backquote character (a TLA+ string cannot contain it)
BT == "BACKTICK"

FENCE_JSON == <<BT, BT, BT, "j", "s", "o", "n">>
FENCE == <<BT, BT, BT>>

\* ------------------------------------------------------------------------
\* json.loads, restricted to objects, arrays, strings with the escapes
\* \" \\ \n, integers and the literals true / false / null
\* ------------------------------------------------------------------------

JObj(members) == [t |-> "obj", v |-> members]
JArr(elems) == [t |-> "arr", v |-> elems]
JStr(text) == [t |-> "str", v |-> text]
JNum(n) == [t |-> "num", v |-> n]
JLit(name) == [t |-> "lit", v |-> name]

EmptyDict == JObj(<<>>)

ParseFail == [ok |-> FALSE, val |-> JLit("null"), next |-> 0]
ParseOk(val, next) == [ok |-> TRUE, val |-> val, next |-> next]

Digits == {"0", "1", "2", "3", "4", "5", "6", "7", "8", "9"}
DigitVal(c) ==
    CASE c = "0" -> 0 [] c = "1" -> 1 [] c = "2" -> 2 [] c = "3" -> 3
      [] c = "4" -> 4 [] c = "5" -> 5 [] c = "6" -> 6 [] c = "7" -> 7
      [] c = "8" -> 8 [] OTHER -> 9

RECURSIVE SkipWs(_, _)
SkipWs(s, i) == IF i <= Len(s) /\ IsWs(s[i]) THEN SkipWs(s, i + 1) ELSE i

\* body of a string; i is the position after the opening quote
RECURSIVE ScanString(_, _, _)
ScanString(s, i, acc) ==
    IF i > Len(s) THEN ParseFail
    ELSE IF s[i] = "\"" THEN ParseOk(JStr(acc), i + 1)
    ELSE IF s[i] = "\\" THEN
        IF i + 1 > Len(s) THEN ParseFail
        ELSE IF s[i + 1] = "\"" THEN ScanString(s, i + 2, Append(acc, "\""))
        ELSE IF s[i + 1] = "\\" THEN ScanString(s, i + 2, Append(acc, "\\"))
        ELSE IF s[i + 1] = "n" THEN ScanString(s, i + 2, Append(acc, "\n"))
        ELSE ParseFail
    ELSE IF s[i] \in {"\n", "\t"} THEN ParseFail   \* control character, strict mode
    ELSE ScanString(s, i + 1, Append(acc, s[i]))

\* digits of an integer; i is the position of the next candidate digit
RECURSIVE ScanDigits(_, _, _)
ScanDigits(s, i, acc) ==
    IF i <= Len(s) /\ s[i] \in Digits
    THEN ScanDigits(s, i + 1, acc * 10 + DigitVal(s[i]))
    ELSE ParseOk(JNum(acc), i)

Negate(r) == ParseOk(JNum(0 - r.val.v), r.next)

\* an integer without sign; j is the position of its first digit
ScanUnsigned(s, j) ==
    IF j > Len(s) \/ s[j] \notin Digits THEN ParseFail
    ELSE IF s[j] = "0" THEN ParseOk(JNum(0), j + 1)
    ELSE ScanDigits(s, j, 0)

ScanNumber(s, i) ==
    IF s[i] = "-"
    THEN IF i + 1 > Len(s) \/ s[i + 1] \notin Digits THEN ParseFail
         ELSE Negate(ScanUnsigned(s, i + 1))
    ELSE ScanUnsigned(s, i)

\* dict[k] = val: replace in place when the key exists, else append
DictSet(members, k, val) ==
    IF \E i \in 1..Len(members) : members[i].k = k
    THEN [i \in 1..Len(members) |->
            IF members[i].k = k THEN [k |-> k, val |-> val] ELSE members[i]]
    ELSE Append(members, [k |-> k, val |-> val])

RECURSIVE ScanValue(_, _)
RECURSIVE ScanMembers(_, _, _)
RECURSIVE ScanElems(_, _, _)

\* object members, after a value: n is the position of the next token
MembersNext(s, acc, n) ==
    IF n > Len(s) THEN ParseFail
    ELSE IF s[n] = "}" THEN ParseOk(JObj(acc), n + 1)
    ELSE IF s[n] = "," THEN ScanMembers(s, SkipWs(s, n + 1), acc)
    ELSE ParseFail

\* object members, with the key and the value of one member scanned
MembersAfterValue(s, acc, key, val) ==
    IF ~val.ok THEN ParseFail
    ELSE MembersNext(s, DictSet(acc, key.val.v, val.val), SkipWs(s, val.next))

\* object members, with the key scanned: c is the position of the colon
MembersAtColon(s, acc, key, c) ==
    IF c > Len(s) \/ s[c] # ":" THEN ParseFail
    ELSE MembersAfterValue(s, acc, key, ScanValue(s, SkipWs(s, c + 1)))

MembersAfterKey(s, acc, key) ==
    IF ~key.ok THEN ParseFail ELSE MembersAtColon(s, acc, key, SkipWs(s, key.next))

\* members of an object; i is the position of the opening quote of a key
ScanMembers(s, i, acc) ==
    IF i > Len(s) \/ s[i] # "\"" THEN ParseFail
    ELSE MembersAfterKey(s, acc, ScanString(s, i + 1, <<>>))

\* array elements, after a value: n is the position of the next token
ElemsNext(s, acc, n) ==
    IF n > Len(s) THEN ParseFail
    ELSE IF s[n] = "]" THEN ParseOk(JArr(acc), n + 1)
    ELSE IF s[n] = "," THEN ScanElems(s, SkipWs(s, n + 1), acc)
    ELSE ParseFail

ElemsAfterValue(s, acc, val) ==
    IF ~val.ok THEN ParseFail
    ELSE ElemsNext(s, Append(acc, val.val), SkipWs(s, val.next))

\* elements of an array; i is the position of the next value
ScanElems(s, i, acc) == ElemsAfterValue(s, acc, ScanValue(s, i))

\* the inside of an object or array; n is the position after the bracket
ScanObject(s, n) ==
    IF n <= Len(s) /\ s[n] = "}" THEN ParseOk(EmptyDict, n + 1)
    ELSE ScanMembers(s, n, <<>>)

ScanArray(s, n) ==
    IF n <= Len(s) /\ s[n] = "]" THEN ParseOk(JArr(<<>>), n + 1)
    ELSE ScanElems(s, n, <<>>)

ScanValue(s, i) ==
    IF i > Len(s) THEN ParseFail
    ELSE IF s[i] = "\"" THEN ScanString(s, i + 1, <<>>)
    ELSE IF s[i] = "{" THEN ScanObject(s, SkipWs(s, i + 1))
    ELSE IF s[i] = "[" THEN ScanArray(s, SkipWs(s, i + 1))
    ELSE IF StartsAt(s, i, <<"n", "u", "l", "l">>) THEN ParseOk(JLit("null"), i + 4)
    ELSE IF StartsAt(s, i, <<"t", "r", "u", "e">>) THEN ParseOk(JLit("true"), i + 4)
    ELSE IF StartsAt(s, i, <<"f", "a", "l", "s", "e">>) THEN ParseOk(JLit("false"), i + 5)
    ELSE IF s[i] \in Digits \cup {"-"} THEN ScanNumber(s, i)
    ELSE ParseFail

\* the whole text must be one value, whitespace around it allowed
LoadsEnd(s, r) == IF r.ok /\ SkipWs(s, r.next) = Len(s) + 1 THEN r ELSE ParseFail

\* json.loads(s): ok = FALSE stands for json.JSONDecodeError
json_loads(s) == LoadsEnd(s, ScanValue(s, SkipWs(s, 1)))

\* Python truth value of a JSON value
Truthy(val) ==
    CASE val.t \in {"obj", "arr", "str"} -> Len(val.v) > 0
      [] val.t = "num" -> val.v # 0
      [] OTHER -> val.v = "true"

IsDict(val) == val.t = "obj"

HasKey(d, k) == \E i \in 1..Len(d.v) : d.v[i].k = k

\* dict.get(k, default)
DictGet(d, k, default) ==
    IF HasKey(d, k) THEN d.v[CHOOSE i \in 1..Len(d.v) : d.v[i].k = k].val ELSE default

\* ------------------------------------------------------------------------
\* Literal texts of the program
\* ------------------------------------------------------------------------

K_task_summary == <<"t", "a", "s", "k", "_", "s", "u", "m", "m", "a", "r", "y">>
K_questions == <<"q", "u", "e", "s", "t", "i", "o", "n", "s">>
K_question == <<"q", "u", "e", "s", "t", "i", "o", "n">>
K_why == <<"w", "h", "y">>
K_example_answer == <<"e", "x", "a", "m", "p", "l", "e", "_", "a", "n", "s", "w", "e", "r">>

ANALYZE_PREFIX == <<"A", "n", "a", "l", "y", "z", "e", " ", "t", "h", "i", "s", " ", "p", "r", "o", "m", "p", "t", ":", "\n", "\n">>
ORIGINAL_PREFIX == <<"O", "r", "i", "g", "i", "n", "a", "l", " ", "p", "r", "o", "m", "p", "t", ":", "\n">>
CONTEXT_PREFIX == <<"\n", "\n", "A", "d", "d", "i", "t", "i", "o", "n", "a", "l", " ", "c", "o", "n", "t", "e", "x", "t", ":", "\n">>
Q_PREFIX == <<"Q", ":", " ">>
A_PREFIX == <<"\n", "A", ":", " ">>
PAIR_SEP == <<"\n", "\n">>

ASK_PROMPT == <<" ", " ", ">", " ">>
CHOICE_PROMPT == <<"S", "e", "n", "d", " ", "t", "o", " ", "C", "l", "a", "u", "d", "e", "?", " ", "[", "y", "e", "s", "/", "e", "d", "i", "t", "/", "c", "a", "n", "c", "e", "l", "]", " ", "(", "y", "e", "s", ")", ":", " ">>

CHOICE_YES == <<"y", "e", "s">>
CHOICE_EDIT == <<"e", "d", "i", "t">>
CHOICE_CANCEL == <<"c", "a", "n", "c", "e", "l">>
CHOICES == <<CHOICE_YES, CHOICE_EDIT, CHOICE_CANCEL>>

None == "None"
WHICH_PATH == "/usr/bin/claude"
LOCAL_PATH == "~/.claude/local/claude"
USR_LOCAL_PATH == "/usr/local/bin/claude"

\* ------------------------------------------------------------------------
\* claude_cli.py
\* ------------------------------------------------------------------------

\* The filesystem as find_claude_cli sees it: fs.which is "shutil.which finds
\* claude on the search path"; fs.local and fs.usr are os.path.isfile of the
\* two fallback locations.
FsStates == [which : BOOLEAN, local : BOOLEAN, usr : BOOLEAN]

\* find_claude_cli() with the module global as the argument cache:
\* ret is the value returned, cache the global afterwards, consulted whether
\* the search path or the filesystem was looked at.
find_claude_cli(cache, fs) ==
    IF cache # None THEN [ret |-> cache, cache |-> cache, consulted |-> FALSE]
    ELSE IF fs.which THEN [ret |-> WHICH_PATH, cache |-> WHICH_PATH, consulted |-> TRUE]
    ELSE IF fs.local THEN [ret |-> LOCAL_PATH, cache |-> LOCAL_PATH, consulted |-> TRUE]
    ELSE IF fs.usr THEN [ret |-> USR_LOCAL_PATH, cache |-> USR_LOCAL_PATH, consulted |-> TRUE]
    ELSE [ret |-> None, cache |-> None, consulted |-> TRUE]

\* What subprocess.run does with the resolved binary: the child exits 0 with
\* text out on its standard output, exits nonzero, exceeds the timeout, or
\* the spawn itself fails with FileNotFoundError or with another OSError
\* (PermissionError: the file is not executable).
OutcomeKinds == {"exit0", "nonzero", "timeout", "FileNotFoundError", "PermissionError"}

Outcome(kind, out) == [kind |-> kind, out |-> out]

\* call_claude(prompt, system) once find_claude_cli has returned found:
\* exc is the exception that leaves the function ("none" when it returns),
\* ret the returned text, err what it printed on the error stream, call the
\* invocation record (what was sent, whether a child was spawned, how the
\* child ended and with which output, what call_claude raised or returned),
\* cache the module global afterwards.
CallResult(prompt, system, found, o, exc, ret, err) ==
    [exc |-> exc, ret |-> ret, err |-> err, cache |-> found.cache,
     call |-> [system |-> system, prompt |-> prompt, spawned |-> found.ret # None,
               outcome |-> IF found.ret # None THEN o.kind ELSE "not spawned",
               out |-> IF found.ret # None THEN o.out ELSE <<>>,
               raised |-> exc, ret |-> ret]]

\* call_claude from subprocess.run on: the binary is resolved
Spawn(prompt, system, found, o) ==
    CASE o.kind = "exit0" ->
             CallResult(prompt, system, found, o, "none", Strip(o.out), <<>>)
      [] o.kind = "nonzero" ->
             CallResult(prompt, system, found, o, "none", <<>>, <<"Claude CLI error">>)
      [] o.kind = "timeout" ->
             CallResult(prompt, system, found, o, "none", <<>>, <<"Claude CLI timed out.">>)
      [] o.kind = "FileNotFoundError" ->
             CallResult(prompt, system, found, o, "none", <<>>,
                        <<"Could not run claude CLI.">>)
      [] OTHER -> CallResult(prompt, system, found, o, o.kind, <<>>, <<>>)

\* a call_claude that treats a missing binary like a failed run
Invoke_NotFoundReturnsEmpty(prompt, system, found, o) ==
    IF found.ret = None
    THEN CallResult(prompt, system, found, o, "none", <<>>, <<>>)
    ELSE Spawn(prompt, system, found, o)

\* call_claude after find_claude_cli has returned found
Invoke(prompt, system, found, o) ==
    IF found.ret = None
    THEN CallResult(prompt, system, found, o, "ClaudeNotFoundError", <<>>, <<>>)
    ELSE Spawn(prompt, system, found, o)

call_claude(prompt, system, cache, fs, o) ==
    Invoke(prompt, system, find_claude_cli(cache, fs), o)

\* ------------------------------------------------------------------------
\* cli.py: core logic
\* ------------------------------------------------------------------------

ParseInner(inner) == IF inner.ok THEN inner.val ELSE EmptyDict

\* the fallback: the text from the first "{" to the last "}"
ParseBraces(cleaned, start, end) ==
    IF start >= 0 /\ end > start
    THEN ParseInner(json_loads(Slice(cleaned, start, end)))
    ELSE EmptyDict

ParseStrict(cleaned, strict) ==
    IF strict.ok THEN strict.val
    ELSE ParseBraces(cleaned, Find(cleaned, "{"), RFind(cleaned, "}") + 1)

ParseCleaned(cleaned) == ParseStrict(cleaned, json_loads(cleaned))

\* parse_json_response(raw): the value the function returns
parse_json_response(raw) ==
    ParseCleaned(Strip(Remove(Remove(raw, FENCE_JSON), FENCE)))

\* a test that accepts every string, blank ones included
WellFormed_AnyString(q) ==
    /\ IsDict(q)
    /\ DictGet(q, K_question, JLit("null")).t = "str"

\* the test of _validate_questions on one element
WellFormed(q) ==
    /\ IsDict(q)
    /\ DictGet(q, K_question, JLit("null")).t = "str"
    /\ Strip(DictGet(q, K_question, JLit("null")).v) # <<>>

_validate_questions(questions) == SelectSeq(questions, WellFormed)

EmptyAnalysis ==
    JObj(<<[k |-> K_task_summary, val |-> JStr(<<>>)],
           [k |-> K_questions, val |-> JArr(<<>>)]>>)

\* raw_questions of analyze(): the questions field when it is a list
RawQuestions(got) == IF got.t = "arr" THEN got.v ELSE <<>>

\* analyze() from "if not result" on; exc = "AttributeError" when result.get
\* is applied to a value that is not a dict
AnalyzeResult(result) ==
    IF ~Truthy(result) THEN [exc |-> "none", ret |-> EmptyAnalysis]
    ELSE IF ~IsDict(result) THEN [exc |-> "AttributeError", ret |-> EmptyAnalysis]
    ELSE [exc |-> "none",
          ret |-> JObj(DictSet(result.v, K_questions,
                    JArr(_validate_questions(
                        RawQuestions(DictGet(result, K_questions, JArr(<<>>)))))))]

\* analyze() after call_claude has returned response
analyze_response(response) ==
    IF response = <<>> THEN [exc |-> "none", ret |-> EmptyAnalysis]
    ELSE AnalyzeResult(parse_json_response(response))

AnalyzeReturn(r, a) ==
    [exc |-> a.exc, ret |-> a.ret, err |-> r.err, calls |-> <<r.call>>, cache |-> r.cache]

AnalyzeCall(r) ==
    IF r.exc # "none"
    THEN [exc |-> r.exc, ret |-> EmptyAnalysis, err |-> r.err, calls |-> <<r.call>>,
          cache |-> r.cache]
    ELSE AnalyzeReturn(r, analyze_response(r.ret))

\* analyze(raw_prompt)
analyze(raw_prompt, cache, fs, o) ==
    AnalyzeCall(call_claude(ANALYZE_PREFIX \o raw_prompt, "ANALYZER_SYSTEM", cache, fs, o))

\* a filter that forgets to strip the answer
NonBlank_NoStrip(entry) == entry.val # <<>>

\* answers is the dict of run(): a sequence of [k, val] with val a text;
\* the filter "if a.strip()" of assemble()
NonBlank(entry) == Strip(entry.val) # <<>>

filled(answers) == SelectSeq(answers, NonBlank)

QA(entry) == Q_PREFIX \o entry.k \o A_PREFIX \o entry.val

JoinPairs(f) == Join(PAIR_SEP, [n \in 1..Len(f) |-> QA(f[n])])

context(answers) == JoinPairs(filled(answers))

\* an assemble() that issues the request again when the answer is empty
AssembleReturn_Retry(original, r) ==
    [exc |-> r.exc, ret |-> IF r.exc = "none" /\ r.ret # <<>> THEN r.ret ELSE original,
     err |-> r.err,
     calls |-> IF r.exc = "none" /\ r.ret = <<>> THEN <<r.call, r.call>> ELSE <<r.call>>,
     cache |-> r.cache]

AssembleReturn(original, r) ==
    [exc |-> r.exc, ret |-> IF r.exc = "none" /\ r.ret # <<>> THEN r.ret ELSE original,
     err |-> r.err, calls |-> <<r.call>>, cache |-> r.cache]

\* assemble(original, answers)
assemble(original, answers, cache, fs, o) ==
    IF filled(answers) = <<>>
    THEN [exc |-> "none", ret |-> original, err |-> <<>>, calls |-> <<>>, cache |-> cache]
    ELSE AssembleReturn(original,
             call_claude(ORIGINAL_PREFIX \o original \o CONTEXT_PREFIX \o context(answers),
                         "ASSEMBLER_SYSTEM", cache, fs, o))

\* ------------------------------------------------------------------------
\* Inputs: texts the external tool can print on its standard output
\* ------------------------------------------------------------------------

R_blank == <<" ", " ", "\n">>
R_prose == <<"o", "o", "p", "s">>
R_wrapped == <<"o", "k", " ", "{", "\"", "q", "u", "e", "s", "t", "i", "o", "n", "s", "\"", ":", "[", "]", "}", " ", ".">>
R_fenced == <<BT, BT, BT, "j", "s", "o", "n", "\n", "{", "\"", "t", "a", "s", "k", "_", "s", "u", "m", "m", "a", "r", "y", "\"", ":", "\"", "x", "\"", ",", "\"", "q", "u", "e", "s", "t", "i", "o", "n", "s", "\"", ":", "[", "]", "}", "\n", BT, BT, BT>>
R_array == <<"[", "1", "]">>
R_empty_array == <<"[", "]">>
R_string == <<"\"", "a", "\"">>
R_number == <<"7">>
R_zero == <<"0">>
R_null == <<"n", "u", "l", "l">>
R_true == <<"t", "r", "u", "e">>
R_empty_object == <<"{", "}">>
R_missing == <<"{", "\"", "x", "\"", ":", "1", "}">>
R_wrong_types == <<"{", "\"", "t", "a", "s", "k", "_", "s", "u", "m", "m", "a", "r", "y", "\"", ":", "1", ",", "\"", "q", "u", "e", "s", "t", "i", "o", "n", "s", "\"", ":", "\"", "a", "\"", "}">>
R_one == <<"{", "\"", "t", "a", "s", "k", "_", "s", "u", "m", "m", "a", "r", "y", "\"", ":", "\"", "s", "\"", ",", "\"", "q", "u", "e", "s", "t", "i", "o", "n", "s", "\"", ":", "[", "{", "\"", "q", "u", "e", "s", "t", "i", "o", "n", "\"", ":", "\"", "A", "?", "\"", "}", "]", "}">>
R_mixed == <<"{", "\"", "q", "u", "e", "s", "t", "i", "o", "n", "s", "\"", ":", "[", "{", "\"", "q", "u", "e", "s", "t", "i", "o", "n", "\"", ":", "\"", "A", "?", "\"", "}", ",", "3", ",", "{", "\"", "q", "u", "e", "s", "t", "i", "o", "n", "\"", ":", "\"", " ", "\"", "}", ",", "{", "\"", "q", "u", "e", "s", "t", "i", "o", "n", "\"", ":", "\"", "B", "?", "\"", ",", "\"", "w", "h", "y", "\"", ":", "\"", "w", "\"", "}", "]", "}">>
R_same == <<"{", "\"", "q", "u", "e", "s", "t", "i", "o", "n", "s", "\"", ":", "[", "{", "\"", "q", "u", "e", "s", "t", "i", "o", "n", "\"", ":", "\"", "A", "?", "\"", "}", ",", "{", "\"", "q", "u", "e", "s", "t", "i", "o", "n", "\"", ":", "\"", "A", "?", "\"", ",", "\"", "e", "x", "a", "m", "p", "l", "e", "_", "a", "n", "s", "w", "e", "r", "\"", ":", "\"", "e", "\"", "}", "]", "}">>
R_reversed == <<"}", "{">>
R_bad_object == <<"{", "x", "}">>
R_two_objects == <<"s", "e", "e", " ", "[", "1", "]", " ", "{", "\"", "a", "\"", ":", "1", "}", " ", "a", "n", "d", " ", "{", "\"", "b", "\"", ":", "2", "}">>
R_ill == <<"{", "\"", "q", "u", "e", "s", "t", "i", "o", "n", "s", "\"", ":", "[", "{", "\"", "q", "u", "e", "s", "t", "i", "o", "n", "\"", ":", "1", "}", ",", "{", "\"", "w", "h", "y", "\"", ":", "\"", "w", "\"", "}", ",", "{", "\"", "q", "u", "e", "s", "t", "i", "o", "n", "\"", ":", "\"", "A", "?", "\"", "}", "]", "}">>
Responses ==
    {R_blank, R_prose, R_wrapped, R_fenced,
     R_array, R_empty_array, R_string, R_number,
     R_zero, R_null, R_true, R_empty_object,
     R_missing, R_wrong_types, R_one, R_mixed,
     R_same, R_reversed, R_bad_object, R_two_objects,
     R_ill}

\* ------------------------------------------------------------------------
\* Inputs: command line, standard input, what the user types, child outcomes
\* ------------------------------------------------------------------------

DRAFT == <<"f", "i", "x">>
TOOL_TEXT == <<"F", "i", "x", ".">>

\* args.prompt; <<>> stands for an absent (or empty) positional argument
ArgPrompts == {<<>>, DRAFT}

\* what sys.stdin.read() returns when standard input is redirected
StdinTexts == {<<>>, <<"\n">>, <<" ">> \o DRAFT \o <<"\n">>}

\* one read of input(): a line, or end of input
Line(text) == [eof |-> FALSE, line |-> text]
EOF == [eof |-> TRUE, line |-> <<>>]

AnswerInputs == {Line(<<>>), Line(<<" ">>), Line(<<"a">>), Line(<<" ", "b">>), EOF}
MainInputs == {Line(<<>>), Line(DRAFT), EOF}
ChoiceInputs ==
    {Line(CHOICE_YES), Line(CHOICE_EDIT), Line(CHOICE_CANCEL \o <<" ">>), Line(<<>>),
     Line(<<"x">>), EOF}
EditLines == {<<>>, <<"e">>}

\* most lines read by the edit loop before end of input
MaxEditLines == 2

AnalyzeOutcomes ==
    {Outcome("exit0", r) : r \in Responses}
        \cup {Outcome(k, <<>>) : k \in OutcomeKinds \ {"exit0"}}

AssembleOutcomes ==
    {Outcome("exit0", TOOL_TEXT), Outcome("exit0", <<"\n">>)}
        \cup {Outcome(k, <<>>) : k \in OutcomeKinds \ {"exit0"}}

\* ------------------------------------------------------------------------
\* State
\* ------------------------------------------------------------------------

VARIABLES
    HAS_RICH,            \* the optional rich import succeeded
    stdin_isatty,        \* sys.stdin.isatty()
    stdout_isatty,       \* standard output is a terminal (not a pipe or file)
    args_prompt,         \* args.prompt
    args_quiet,          \* args.quiet
    fs,                  \* search path and fallback files, see FsStates
    _cached_claude_bin,  \* the module global of claude_cli.py
    pc,                  \* position of the process
    raw_prompt,          \* the draft given to run()
    quiet,               \* the quiet argument of run()
    analysis,            \* what analyze() returned
    i,                   \* index of the next question of the ask loop
    answers,             \* the answers dict of run()
    final,               \* what assemble() returned
    choice,              \* what ask_choice() returned
    lines,               \* lines read by the edit loop
    result,              \* the value returned by run() or by a library call
    stdout,              \* what was written to standard output, in order
    stderr,              \* what was written to the error stream, in order
    exit_code,           \* exit status, -1 while the process runs
    exc,                 \* exception that ended the process or call, or "none"
    calls,               \* the invocations of call_claude, in order
    log,                 \* analyze / ask / assemble / confirm events, in order
    asked,               \* texts of the questions put to the user, in order
    given,               \* what ask() returned for each of them, in order
    find_calls,          \* library use: number of find_claude_cli calls made
    first_ret,           \* library use: what the first find_claude_cli returned
    find_ret,            \* library use: what the last find_claude_cli returned
    consulted            \* library use: the last call looked at fs

envVars == <<HAS_RICH, stdin_isatty, stdout_isatty, args_prompt, args_quiet>>
runVars == <<raw_prompt, quiet, analysis, i, answers, final, choice, lines, result>>
ioVars == <<stdout, stderr>>
endVars == <<exit_code, exc>>
histVars == <<calls, log, asked, given>>
findVars == <<find_calls, first_ret, find_ret, consulted>>

vars == <<envVars, fs, _cached_claude_bin, pc, runVars, ioVars, endVars, histVars,
          findVars>>

\* ------------------------------------------------------------------------
\* cli.py: UI helpers
\* ------------------------------------------------------------------------

\* One entry of standard output
Out(kind, text) == [kind |-> kind, text |-> text]

\* Where the prompt of input(prompt) goes when rich is absent: Python writes
\* it to standard output; when standard output is a terminal the
\* interpreter's line reader puts it on the terminal through the error stream.
InputPrompt(text) ==
    IF stdout_isatty
    THEN [out |-> <<>>, err |-> <<"input_prompt">>]
    ELSE [out |-> <<Out("input_prompt", text)>>, err |-> <<>>]

\* rich's Prompt.ask on the stderr console
RichPrompt == [out |-> <<>>, err |-> <<"input_prompt">>]

\* Inputs a read can get: rich re-prompts on an invalid choice, and its
\* behaviour at end of input is not part of this program
CanRead(inp, choices) ==
    HAS_RICH => /\ ~inp.eof
                /\ choices # {} => Strip(inp.line) \in choices \cup {<<>>}

\* ask(default): ret is the returned text, out / err what was written
ask(inp, default) ==
    LET typed == Strip(inp.line)
        ret == IF inp.eof \/ typed = <<>> THEN default ELSE typed
        p == IF HAS_RICH THEN RichPrompt ELSE InputPrompt(ASK_PROMPT)
    IN [ret |-> ret, out |-> p.out, err |-> p.err]

\* ask_choice(prompt_text, choices, default)
ask_choice(inp, choices, default) ==
    LET typed == Strip(inp.line)
        ret == IF ~inp.eof /\ typed \in choices THEN typed ELSE default
        p == IF HAS_RICH THEN RichPrompt ELSE InputPrompt(CHOICE_PROMPT)
    IN [ret |-> ret, out |-> p.out, err |-> p.err]

ChoiceSet == {CHOICES[n] : n \in 1..Len(CHOICES)}

\* ------------------------------------------------------------------------
\* cli.py: main() and run()
\* ------------------------------------------------------------------------

Init ==
    /\ HAS_RICH \in BOOLEAN
    /\ stdin_isatty \in BOOLEAN
    /\ stdout_isatty \in BOOLEAN
    /\ args_prompt \in ArgPrompts
    /\ args_quiet \in BOOLEAN
    /\ fs \in FsStates
    /\ _cached_claude_bin = None
    /\ pc = "main"
    /\ raw_prompt = <<>>
    /\ quiet = FALSE
    /\ analysis = EmptyDict
    /\ i = 0
    /\ answers = <<>>
    /\ final = <<>>
    /\ choice = <<>>
    /\ lines = <<>>
    /\ result = <<>>
    /\ stdout = <<>>
    /\ stderr = <<>>
    /\ exit_code = -1
    /\ exc = "none"
    /\ calls = <<>>
    /\ log = <<>>
    /\ asked = <<>>
    /\ given = <<>>
    /\ find_calls = 0
    /\ first_ret = None
    /\ find_ret = None
    /\ consulted = FALSE

\* the process ends with status code; e names an uncaught exception
Exit(code, e) ==
    /\ pc' = "exited"
    /\ exit_code' = code
    /\ exc' = e

\* run() returns value to main()
Return(value) ==
    /\ pc' = "returned"
    /\ result' = value
    /\ UNCHANGED endVars

\* stdin_is_pipe
stdin_is_pipe == ~stdin_isatty

\* a main() that does not force quiet mode on redirected input
ForcedQuiet_FlagOnly == args_quiet

\* quiet = args.quiet or stdin_is_pipe
ForcedQuiet == args_quiet \/ stdin_is_pipe

\* main() once the draft raw is known: the missing-prompt check, then run()
MainWithPrompt(raw, out, err) ==
    /\ stdout' = stdout \o out
    /\ IF raw = <<>>
       THEN /\ stderr' = stderr \o err \o <<"Error: No prompt provided.">>
            /\ Exit(1, "none")
            /\ UNCHANGED <<raw_prompt, quiet>>
       ELSE /\ stderr' = stderr \o err
            /\ raw_prompt' = raw
            /\ quiet' = ForcedQuiet
            /\ pc' = "run"
            /\ UNCHANGED endVars
    /\ UNCHANGED <<envVars, fs, _cached_claude_bin, analysis, i, answers, final, lines, result,
                   histVars, choice, findVars>>

\* main(): the prompt is the positional argument
Main_PromptFromArg ==
    /\ pc = "main"
    /\ args_prompt # <<>>
    /\ MainWithPrompt(args_prompt, <<>>, <<>>)

\* main(): the prompt is read from redirected standard input
Main_PromptFromStdin ==
    /\ pc = "main"
    /\ args_prompt = <<>>
    /\ stdin_is_pipe
    /\ \E text \in StdinTexts : MainWithPrompt(Strip(text), <<>>, <<>>)

\* main(): the prompt is asked for
Main_PromptAsked ==
    /\ pc = "main"
    /\ args_prompt = <<>>
    /\ ~stdin_is_pipe
    /\ \E inp \in MainInputs :
          /\ CanRead(inp, {})
          /\ LET a == ask(inp, <<>>)
             IN MainWithPrompt(a.ret, a.out, <<"show">> \o a.err)

\* the except clauses of main(), and the interpreter for anything else:
\* what is written to the error stream and the exit status
MainExcept(e) ==
    CASE e = "ClaudeNotFoundError" -> [err |-> <<"Error: claude CLI not found">>, code |-> 1,
                                       exc |-> "none"]
      [] e = "KeyboardInterrupt" -> [err |-> <<"Cancelled.">>, code |-> 130, exc |-> "none"]
      [] OTHER -> [err |-> <<"Traceback">>, code |-> 1, exc |-> e]

\* an exception e leaves run(); err was written before it was raised
Raise(e, err) ==
    /\ stderr' = stderr \o err \o MainExcept(e).err
    /\ Exit(MainExcept(e).code, MainExcept(e).exc)

\* run(): the Display step
Run_Display ==
    /\ pc = "run"
    /\ stderr' = stderr \o (IF quiet THEN <<>> ELSE <<"show", "panel", "status">>)
    /\ pc' = "analyze"
    /\ UNCHANGED <<envVars, fs, _cached_claude_bin, runVars, stdout, endVars, histVars,
                   findVars>>

\* run(): what follows the return of analyze(), or the exception leaving it
AfterAnalyze(r) ==
    /\ _cached_claude_bin' = r.cache
    /\ calls' = calls \o r.calls
    /\ IF r.exc = "none"
       THEN /\ analysis' = r.ret
            /\ stderr' = stderr \o r.err
            /\ pc' = "analyzed"
            /\ UNCHANGED endVars
       ELSE /\ Raise(r.exc, r.err)
            /\ UNCHANGED analysis

\* run(): analysis = analyze(raw_prompt)
Run_Analyze ==
    /\ pc = "analyze"
    /\ \E o \in AnalyzeOutcomes : AfterAnalyze(analyze(raw_prompt, _cached_claude_bin, fs, o))
    /\ log' = Append(log, "analyze")
    /\ UNCHANGED <<envVars, fs, raw_prompt, quiet, i, answers, final, lines, result, stdout,
                   asked, given, choice, findVars>>

Summary(a) == DictGet(a, K_task_summary, JStr(<<>>))
Questions(a) == DictGet(a, K_questions, JArr(<<>>)).v

\* a test for None in place of the test for emptiness
NoQuestions_IsNone(questions) == FALSE

\* "if not questions"
NoQuestions(questions) == questions = <<>>

\* run(): from the summary line to the start of the ask loop
Run_Questions ==
    /\ pc = "analyzed"
    /\ LET understanding ==
               IF ~quiet /\ Truthy(Summary(analysis)) THEN <<"understanding">> ELSE <<>>
       IN IF NoQuestions(Questions(analysis))
          THEN /\ stderr' = stderr \o understanding
                                \o (IF quiet THEN <<>> ELSE <<"no questions needed">>)
               /\ Return(raw_prompt)
               /\ UNCHANGED <<i, answers>>
          ELSE IF quiet
          THEN /\ stderr' = stderr \o understanding
               /\ Return(raw_prompt)
               /\ UNCHANGED <<i, answers>>
          ELSE /\ stderr' = stderr \o understanding \o <<"count">>
               /\ pc' = "ask"
               /\ i' = 1
               /\ answers' = <<>>
               /\ UNCHANGED <<result, endVars>>
    /\ UNCHANGED <<envVars, fs, _cached_claude_bin, raw_prompt, quiet, analysis, final, lines,
                   stdout, histVars, choice, findVars>>

\* run(): one iteration of the ask loop
Run_Ask ==
    /\ pc = "ask"
    /\ i <= Len(Questions(analysis))
    /\ \E inp \in AnswerInputs :
          /\ CanRead(inp, {})
          /\ LET q == Questions(analysis)[i]
                 a == ask(inp, <<>>)
                 hint(k, tag) ==
                     IF Truthy(DictGet(q, k, JLit("null"))) THEN <<tag>> ELSE <<>>
             IN /\ stderr' = stderr \o <<"question">> \o hint(K_why, "why")
                                 \o hint(K_example_answer, "example") \o a.err \o <<"show">>
                /\ stdout' = stdout \o a.out
                /\ answers' = DictSet(answers, DictGet(q, K_question, JStr(<<>>)).v, a.ret)
                /\ asked' = Append(asked, DictGet(q, K_question, JStr(<<>>)).v)
                /\ given' = Append(given, a.ret)
    /\ log' = Append(log, "ask")
    /\ i' = i + 1
    /\ UNCHANGED <<envVars, fs, _cached_claude_bin, pc, raw_prompt, quiet, analysis, final,
                   lines, result, endVars, calls, choice, findVars>>

AnyAnswer(d) == \E n \in 1..Len(d) : Strip(d[n].val) # <<>>

\* run(): every answer is blank
Run_NoAnswers ==
    /\ pc = "ask"
    /\ i > Len(Questions(analysis))
    /\ ~AnyAnswer(answers)
    /\ stderr' = stderr \o <<"No extra context added.">>
    /\ Return(raw_prompt)
    /\ UNCHANGED <<envVars, fs, _cached_claude_bin, raw_prompt, quiet, analysis, i, answers,
                   final, lines, stdout, histVars, choice, findVars>>

\* run(): what follows the return of assemble(), or the exception leaving it
AfterAssemble(r) ==
    /\ _cached_claude_bin' = r.cache
    /\ calls' = calls \o r.calls
    /\ IF r.exc = "none"
       THEN /\ final' = r.ret
            /\ stderr' = stderr \o <<"Assembling...">> \o r.err
                           \o (IF HAS_RICH THEN <<"rule">> ELSE <<>>) \o <<"panel", "show">>
            /\ pc' = "confirm"
            /\ UNCHANGED endVars
       ELSE /\ Raise(r.exc, <<"Assembling...">> \o r.err)
            /\ UNCHANGED final

\* run(): final = assemble(raw_prompt, answers) and the panel that shows it
Run_Assemble ==
    /\ pc = "ask"
    /\ i > Len(Questions(analysis))
    /\ AnyAnswer(answers)
    /\ \E o \in AssembleOutcomes :
          AfterAssemble(assemble(raw_prompt, answers, _cached_claude_bin, fs, o))
    /\ log' = Append(log, "assemble")
    /\ UNCHANGED <<envVars, fs, raw_prompt, quiet, analysis, i, answers, lines, result, stdout,
                   asked, given, choice, findVars>>

\* run(): the three-way choice
Run_Confirm ==
    /\ pc = "confirm"
    /\ \E inp \in ChoiceInputs :
          /\ CanRead(inp, ChoiceSet)
          /\ LET c == ask_choice(inp, ChoiceSet, CHOICE_YES) IN
             /\ choice' = c.ret
             /\ stdout' = stdout \o c.out
             /\ IF c.ret = CHOICE_YES
                THEN /\ stderr' = stderr \o c.err
                     /\ Return(final)
                     /\ UNCHANGED lines
                ELSE IF c.ret = CHOICE_EDIT
                THEN /\ stderr' = stderr \o c.err \o <<"Type your edited prompt">>
                     /\ pc' = "edit"
                     /\ lines' = <<>>
                     /\ UNCHANGED <<result, endVars>>
                ELSE /\ stderr' = stderr \o c.err
                     /\ Exit(0, "none")           \* sys.exit(0)
                     /\ UNCHANGED <<result, lines>>
    /\ log' = Append(log, "confirm")
    /\ UNCHANGED <<envVars, fs, _cached_claude_bin, raw_prompt, quiet, analysis, i, answers,
                   final, calls, asked, given, findVars>>

\* run(): the edit loop reads one more line
Run_EditLine ==
    /\ pc = "edit"
    /\ Len(lines) < MaxEditLines
    /\ \E line \in EditLines : lines' = Append(lines, line)
    /\ UNCHANGED <<envVars, fs, _cached_claude_bin, pc, raw_prompt, quiet, analysis, i,
                   answers, final, result, ioVars, endVars, histVars, choice, findVars>>

\* run(): the edit loop reaches end of input
Run_EditEOF ==
    /\ pc = "edit"
    /\ Return(IF lines # <<>> THEN Join(<<"\n">>, lines) ELSE final)
    /\ UNCHANGED <<envVars, fs, _cached_claude_bin, raw_prompt, quiet, analysis, i, answers,
                   final, lines, ioVars, histVars, choice, findVars>>

\* main(): print(final)
Main_Print ==
    /\ pc = "returned"
    /\ stdout' = Append(stdout, Out("final", result))
    /\ Exit(0, "none")
    /\ UNCHANGED <<envVars, fs, _cached_claude_bin, runVars, stderr, histVars, findVars>>

\* the user interrupts while main() is inside its try block
Main_Interrupt ==
    /\ pc \in {"run", "analyze", "analyzed", "ask", "confirm", "edit", "returned"}
    /\ Raise("KeyboardInterrupt", <<>>)
    /\ UNCHANGED <<envVars, fs, _cached_claude_bin, runVars, stdout, histVars, findVars>>

Next ==
    \/ Main_PromptFromArg
    \/ Main_PromptFromStdin
    \/ Main_PromptAsked
    \/ Run_Display
    \/ Run_Analyze
    \/ Run_Questions
    \/ Run_Ask
    \/ Run_NoAnswers
    \/ Run_Assemble
    \/ Run_Confirm
    \/ Run_EditLine
    \/ Run_EditEOF
    \/ Main_Print
    \/ Main_Interrupt

Spec == Init /\ [][Next]_vars

\* ------------------------------------------------------------------------
\* Library use of claude_cli.find_claude_cli: a process that calls it
\* repeatedly while the search path and the fallback files change
\* ------------------------------------------------------------------------

\* most calls of find_claude_cli in one process
MaxFindCalls == 3

\* the state of a process that has only imported the modules
Imported ==
    /\ HAS_RICH = FALSE
    /\ stdin_isatty = TRUE
    /\ stdout_isatty = TRUE
    /\ args_prompt = <<>>
    /\ args_quiet = FALSE
    /\ _cached_claude_bin = None
    /\ pc = "lib"
    /\ quiet = FALSE
    /\ analysis = EmptyDict
    /\ i = 0
    /\ final = <<>>
    /\ choice = <<>>
    /\ lines = <<>>
    /\ result = <<>>
    /\ stdout = <<>>
    /\ stderr = <<>>
    /\ exit_code = -1
    /\ exc = "none"
    /\ calls = <<>>
    /\ log = <<>>
    /\ asked = <<>>
    /\ given = <<>>
    /\ find_calls = 0
    /\ first_ret = None
    /\ find_ret = None
    /\ consulted = FALSE

InitFind ==
    /\ Imported
    /\ fs \in FsStates
    /\ raw_prompt = <<>>
    /\ answers = <<>>

\* what one call of find_claude_cli leaves behind
AfterFind(r) ==
    /\ _cached_claude_bin' = r.cache
    /\ find_ret' = r.ret
    /\ consulted' = r.consulted
    /\ first_ret' = IF find_calls = 0 THEN r.ret ELSE first_ret
    /\ find_calls' = find_calls + 1

\* the process calls find_claude_cli()
Lib_Find ==
    /\ pc = "lib"
    /\ find_calls < MaxFindCalls
    /\ AfterFind(find_claude_cli(_cached_claude_bin, fs))
    /\ UNCHANGED <<envVars, fs, pc, runVars, ioVars, endVars, histVars>>

\* the search path or the fallback files change between calls
Lib_FsChange ==
    /\ pc = "lib"
    /\ \E f \in FsStates \ {fs} : fs' = f
    /\ UNCHANGED <<envVars, _cached_claude_bin, pc, runVars, ioVars, endVars, histVars,
                   findVars>>

NextFind == Lib_Find \/ Lib_FsChange

SpecFind == InitFind /\ [][NextFind]_vars

\* ------------------------------------------------------------------------
\* Library use of cli.assemble: one call on an arbitrary answer set
\* ------------------------------------------------------------------------

QUESTION_A == <<"A", "?">>
QUESTION_B == <<"B", "?">>

AnswerTexts == {<<>>, <<" ">>, <<"\n", "\t">>, <<"a">>}

Entry(k, val) == [k |-> k, val |-> val]

\* the answer dicts over at most two questions, in both insertion orders
AnswerSets ==
    {<<>>}
        \cup {<<Entry(q, a)>> : q \in {QUESTION_A, QUESTION_B}, a \in AnswerTexts}
        \cup {<<Entry(QUESTION_A, a), Entry(QUESTION_B, b)>> : a \in AnswerTexts, b \in AnswerTexts}
        \cup {<<Entry(QUESTION_B, b), Entry(QUESTION_A, a)>> : a \in AnswerTexts, b \in AnswerTexts}

Originals == {DRAFT, <<" ">>, <<>>}

InitAssemble ==
    /\ Imported
    /\ fs \in {f \in FsStates : f.local = f.usr}
    /\ raw_prompt \in Originals
    /\ answers \in AnswerSets

\* what the call of assemble leaves behind
AfterLibAssemble(r) ==
    /\ _cached_claude_bin' = r.cache
    /\ calls' = calls \o r.calls
    /\ stderr' = stderr \o r.err
    /\ exc' = r.exc
    /\ result' = r.ret
    /\ pc' = IF r.exc = "none" THEN "lib_returned" ELSE "lib_raised"

\* the process calls assemble(raw_prompt, answers)
Lib_Assemble ==
    /\ pc = "lib"
    /\ \E o \in AssembleOutcomes :
          AfterLibAssemble(assemble(raw_prompt, answers, _cached_claude_bin, fs, o))
    /\ UNCHANGED <<envVars, fs, raw_prompt, quiet, analysis, i, answers, final, choice,
                   lines, stdout, exit_code, log, asked, given, findVars>>

NextAssemble == Lib_Assemble

SpecAssemble == InitAssemble /\ [][NextAssemble]_vars

\* ------------------------------------------------------------------------
\* Properties
\* ------------------------------------------------------------------------

Last(seq) == seq[Len(seq)]

\* the binary is neither on the search path nor at a fallback location
NotLocatable == ~fs.which /\ ~fs.local /\ ~fs.usr

\* analyze() has returned normally in this run
AnalysisDone == calls # <<>> /\ calls[1].raised = "none" /\ exc # "AttributeError"

\* C1: when the binary cannot be located, a run never writes a prompt to
\* standard output; call_claude raises ClaudeNotFoundError, main() reports it
\* on the error stream and the process exits with status 1.
C1_NotFoundExitsWithoutPrompt ==
    NotLocatable =>
        /\ \A n \in 1..Len(stdout) : stdout[n].kind # "final"
        /\ calls # <<>> =>
              /\ ~calls[1].spawned
              /\ calls[1].raised = "ClaudeNotFoundError"
              /\ pc = "exited"
              /\ exit_code = 1
              /\ exc = "none"
              /\ Last(stderr) = "Error: claude CLI not found"

C1_Witness == NotLocatable /\ calls # <<>> /\ pc = "exited" /\ raw_prompt = DRAFT

\* the tool's answer gives analyze() nothing to use: no text, text that is
\* not JSON, or JSON that is not an object
Unusable(text) ==
    \/ text = <<>>
    \/ ~IsDict(parse_json_response(text))
    \/ parse_json_response(text) = EmptyDict

\* C2: whatever text the tool returns, analyze() returns normally, and when
\* the call failed or the text is unusable its result is the empty analysis.
C2_AnalyzeNeverRaises ==
    (calls # <<>> /\ calls[1].spawned /\ calls[1].raised = "none") =>
        /\ exc # "AttributeError"
        /\ Unusable(calls[1].ret) => analysis = EmptyAnalysis

\* C3: parse_json_response returns a record (possibly the empty record) for
\* every text it is given.
C3_ParseReturnsRecord ==
    \A n \in 1..Len(calls) :
        (calls[n].system = "ANALYZER_SYSTEM" /\ calls[n].raised = "none"
            /\ calls[n].ret # <<>>)
        => IsDict(parse_json_response(calls[n].ret))

\* C4: when the analysis has no questions, run() returns the draft unchanged,
\* asks nothing and makes no tool call after the one of analyze, in quiet and
\* in interactive mode.
C4_NoQuestionsReturnsDraft ==
    (AnalysisDone /\ Questions(analysis) = <<>>) =>
        /\ pc \in {"analyzed", "returned", "exited"}
        /\ asked = <<>>
        /\ log = <<"analyze">>
        /\ Len(calls) = 1
        /\ pc = "returned" => result = raw_prompt
        /\ (pc = "exited" /\ exit_code = 0) => Last(stdout) = Out("final", raw_prompt)

C4_Witness ==
    /\ AnalysisDone
    /\ calls[1].outcome = "exit0"
    /\ Questions(analysis) = <<>>
    /\ ~quiet
    /\ pc = "exited"
    /\ exit_code = 0

AllBlank(d) ==
    \A n \in 1..Len(d) : \A k \in 1..Len(d[n].val) : IsWs(d[n].val[k])

\* C6: assemble(original, answers) with no non-blank answer returns original
\* and does not invoke the external tool; assemble(original, {}) = original.
C6_BlankAnswersReturnOriginal ==
    (pc # "lib" /\ AllBlank(answers)) =>
        /\ pc = "lib_returned"
        /\ result = raw_prompt
        /\ calls = <<>>
        /\ _cached_claude_bin = None
        /\ stderr = <<>>

C6_Witness ==
    /\ pc = "lib_returned"
    /\ AllBlank(answers)
    /\ \E n \in 1..Len(answers) : answers[n].val # <<>>
    /\ raw_prompt = DRAFT

\* C7: after "cancel" at the confirmation step the process has ended with
\* status 0 and standard output is empty.
C7_CancelLeavesStdoutEmpty ==
    choice = CHOICE_CANCEL => (pc = "exited" /\ exit_code = 0 /\ stdout = <<>>)

\* C8: standard output holds nothing but the final prompt, written once at
\* the end of a successful run; a run that ends in an error, an interrupt or
\* a cancel writes nothing to it.
C8_StdoutHoldsOnlyFinalPrompt ==
    /\ stdout # <<>> =>
          /\ stdout = <<Out("final", result)>>
          /\ pc = "exited"
          /\ exit_code = 0
    /\ (pc = "exited" /\ (exit_code # 0 \/ choice = CHOICE_CANCEL)) => stdout = <<>>
    /\ (pc = "exited" /\ exit_code = 0 /\ choice # CHOICE_CANCEL) => Len(stdout) = 1

\* C9: once the binary is resolved call_claude raises nothing: it returns
\* the stripped output on exit code 0 and the empty text on every failure.
C9_CallClaudeNeverRaises ==
    \A n \in 1..Len(calls) :
        calls[n].spawned =>
            /\ calls[n].raised = "none"
            /\ calls[n].ret = IF calls[n].outcome = "exit0" THEN Strip(calls[n].out)
                              ELSE <<>>

\* C10: once find_claude_cli has returned, found or not, every later call
\* returns the same result without consulting the search path or the files.
C10_FirstLookupIsFinal ==
    find_calls >= 2 => (find_ret = first_ret /\ ~consulted)

\* the question texts of the analysis, in order
QuestionTexts ==
    [n \in 1..Len(Questions(analysis)) |->
        DictGet(Questions(analysis)[n], K_question, JStr(<<>>)).v]

\* what the user was asked and what the user answered, pair by pair
Exchange == [n \in 1..Len(asked) |-> Entry(asked[n], given[n])]

\* the context block that lists every non-blank exchange in order
ExchangeContext == JoinPairs(SelectSeq(Exchange, NonBlank))

\* C11: the questions are asked once each in order; the context block given
\* to the assembler lists every question the user answered with a non-blank
\* text, paired with that answer, in question order (also when two
\* questions have the same text); and the assembler is invoked whenever
\* some answer the user gave was non-blank.
C11_EveryAnswerReachesAssembler ==
    /\ Len(asked) <= Len(QuestionTexts)
    /\ asked = SubSeq(QuestionTexts, 1, Len(asked))
    /\ \A n \in 1..Len(calls) :
          calls[n].system = "ASSEMBLER_SYSTEM" =>
              /\ asked = QuestionTexts
              /\ calls[n].prompt =
                     ORIGINAL_PREFIX \o raw_prompt \o CONTEXT_PREFIX \o ExchangeContext
    /\ (pc = "returned" /\ asked # <<>> /\ Len(calls) = 1) =>
          \A n \in 1..Len(given) : Strip(given[n]) = <<>>

\* the place of an event of the log in the control flow of run()
Rank(e) ==
    CASE e = "analyze" -> 1
      [] e = "ask" -> 2
      [] e = "assemble" -> 3
      [] OTHER -> 4

\* C12: run() calls the tool at most twice and never repeats a request:
\* one analyze call, made before any question is asked, and at most one
\* assemble call, made after every question has been asked with some answer
\* non-blank and before the confirm choice; when a call returns the empty
\* text the fallback (the empty analysis, the original prompt) is used.
C12_NoRetries ==
    /\ Len(calls) <= 2
    /\ log # <<>> => log[1] = "analyze"
    /\ \A n \in 1..(Len(log) - 1) :
          \/ Rank(log[n]) < Rank(log[n + 1])
          \/ log[n] = "ask" /\ log[n + 1] = "ask"
    /\ Len(calls) = Cardinality({n \in 1..Len(log) : log[n] \in {"analyze", "assemble"}})
    /\ pc \in {"analyzed", "ask", "confirm", "edit", "returned"} => calls # <<>>
    /\ calls # <<>> =>
          /\ calls[1].system = "ANALYZER_SYSTEM"
          /\ calls[1].prompt = ANALYZE_PREFIX \o raw_prompt
          /\ (calls[1].raised = "none" /\ calls[1].ret = <<>>) => analysis = EmptyAnalysis
    /\ Len(calls) = 2 =>
          /\ calls[2].system = "ASSEMBLER_SYSTEM"
          /\ calls[2].prompt # calls[1].prompt
          /\ asked = QuestionTexts
          /\ \E n \in 1..Len(given) : Strip(given[n]) # <<>>
          /\ (calls[2].raised = "none" /\ calls[2].ret = <<>>) => final = raw_prompt

C12_Witness ==
    /\ Len(calls) = 2
    /\ calls[2].outcome = "timeout"
    /\ Len(asked) = 2
    /\ choice = CHOICE_YES
    /\ pc = "exited"
    /\ exit_code = 0
    /\ Last(stdout) = Out("final", raw_prompt)

\* q is a record whose question field is a string with a non-blank character
GoodQuestion(q) ==
    /\ q.t = "obj"
    /\ \E n \in 1..Len(q.v) :
          /\ q.v[n].k = K_question
          /\ q.v[n].val.t = "str"
          /\ \E c \in 1..Len(q.v[n].val.v) : ~IsWs(q.v[n].val.v[c])

\* the questions field of a parsed response when it is a sequence
QuestionsField(parsed) ==
    IF \E n \in 1..Len(parsed.v) : parsed.v[n].k = K_questions /\ parsed.v[n].val.t = "arr"
    THEN (CHOOSE e \in {parsed.v[n] : n \in 1..Len(parsed.v)} : e.k = K_questions).val.v
    ELSE <<>>

GoodIndexes(field) == {n \in 1..Len(field) : GoodQuestion(field[n])}

\* the n-th of a set of indexes, counted from the smallest
NthIndex(idx, n) == CHOOSE k \in idx : Cardinality({j \in idx : j <= k}) = n

\* the elements of field at the indexes idx, in their order in field
SubsequenceAt(field, idx) == [n \in 1..Cardinality(idx) |-> field[NthIndex(idx, n)]]

GoodSubsequence(field) == SubsequenceAt(field, GoodIndexes(field))

\* analyze() has just returned analysis for a response that parsed to parsed
ReturnedFrom(parsed) ==
    IsDict(parsed) => Questions(analysis) = GoodSubsequence(QuestionsField(parsed))

\* C13: when the response parses to a record, the questions analyze()
\* returns are the elements of its questions field that are records with a
\* non-blank string question, in their original order, and nothing when the
\* field is absent or not a sequence; so every question put to the user has
\* a non-blank text.
C13_QuestionsAreTheWellFormedOnes ==
    /\ pc = "analyzed" => ReturnedFrom(parse_json_response(calls[1].ret))
    /\ \A n \in 1..Len(Questions(analysis)) : GoodQuestion(Questions(analysis)[n])
    /\ \A n \in 1..Len(asked) : \E c \in 1..Len(asked[n]) : ~IsWs(asked[n][c])

C13_Witness ==
    /\ AnalysisDone
    /\ calls[1].ret = R_mixed
    /\ Len(Questions(analysis)) = 2
    /\ Len(asked) = 2
    /\ asked[2] = QUESTION_B

====
